---- MODULE Spec2Model ----
(***************************************************************************)
(* Model of the ai_agent service: run_app (src/main.py), the logging       *)
(* bootstrap setup_logging with its InterceptHandler and _filter           *)
(* (src/config/log.py), the request middleware extra_process and the       *)
(* lifespan hook (src/api/app.py) and the route root (src/api/chat.py).    *)
(*                                                                         *)
(* Strings whose content matters (correlation ids, header values) are      *)
(* sequences of one-character strings, so that padding and length are      *)
(* computed.  An optional value is a sequence of length 0 (absent) or 1.   *)
(***************************************************************************)
EXTENDS Integers, Sequences, FiniteSets, TLC

VARIABLES
    mainpc,      \* position of run_app / the server life cycle
    handlers,    \* loguru: the registered sinks, in registration order
    out,         \* loguru: per sink, the lines accepted (rendered, enqueued)
    written,     \* loguru: per sink, how many lines its writer thread flushed
    logDirExists,\* whether <BASE_DIR>/logs exists
    stdHandlers, \* logging: per standard logger, its handler list
    stdPropagate,\* logging: per standard logger, its propagate flag
    rootLevel,   \* logging: the root logger's level
    lastStd,     \* the last standard-logging call and what became of it
    stdCount,    \* number of standard-logging calls made by the server itself
    ctx,         \* request_id_context: per task, the value of the variable
    req          \* per request: position, inputs and locals of its handling

vars == <<mainpc, handlers, out, written, logDirExists, stdHandlers, stdPropagate,
          rootLevel, lastStd, stdCount, ctx, req>>

(***************************************************************************)
(* Bounds of the model.                                                    *)
(***************************************************************************)
MaxReq == 2
MaxStdLog == 2
NumSeeds == 2

(***************************************************************************)
(* Program constants.                                                      *)
(***************************************************************************)
TraceIdWidth == 32

Requests == 1..MaxReq

Some(v) == <<v>>
None == <<>>

(***************************************************************************)
(* Tasks (asyncio tasks, each with its own copy of the context).           *)
(***************************************************************************)
MainTask == <<"main", 0>>
LifespanTask == <<"lifespan", 0>>
ReqTask(r) == <<"req", r>>
HandlerTask(r) == <<"handler", r>>
Tasks == {MainTask, LifespanTask}
           \cup {ReqTask(r) : r \in Requests}
           \cup {HandlerTask(r) : r \in Requests}

(***************************************************************************)
(* request_id_context: a context variable.                                 *)
(***************************************************************************)
ContextGet(c, task, default) == IF c[task] = None THEN default ELSE c[task][1]

ContextSet(c, task, value) == [c EXCEPT ![task] = Some(value)]

ContextCopy(c, parent, child) == [c EXCEPT ![child] = c[parent]]

MissTraceId == <<"m", "i", "s", "s", "_", "t", "r", "a", "c", "e", "i", "d">>

(***************************************************************************)
(* The format field {extra[traceid]: <32}: left-justified, padded with     *)
(* spaces to the width, never truncated.                                   *)
(***************************************************************************)
PadLeftJustified(s, width) ==
    IF Len(s) >= width THEN s
    ELSE s \o [i \in 1..(width - Len(s)) |-> " "]

\* _filter reading the context of the sink's writer thread, not the caller's.
FilterInWriterThread(c, task) == ContextGet(c, <<"main", 0>>, MissTraceId)

\* _filter with another default than "miss_traceid".
FilterEmptyDefault(c, task) == ContextGet(c, task, <<>>)

\* _filter: record["extra"] = {"traceid": request_id_context.get("miss_traceid")}
Filter(c, task) == ContextGet(c, task, MissTraceId)

RenderTraceId(c, task) == PadLeftJustified(Filter(c, task), TraceIdWidth)

(***************************************************************************)
(* loguru levels and level resolution.                                     *)
(***************************************************************************)
LoguruLevels ==
    [TRACE |-> 5, DEBUG |-> 10, INFO |-> 20, SUCCESS |-> 25,
     WARNING |-> 30, ERROR |-> 40, CRITICAL |-> 50]

ByName(n) == [kind |-> "name", name |-> n, no |-> 0]
ByNo(k) == [kind |-> "no", name |-> "", no |-> k]

\* logger.level(name): the level's name, or ValueError when it is unknown.
LevelLookupFails(name) == name \notin DOMAIN LoguruLevels

\* logger.log(level, ...): the level a call resolves to, or a ValueError.
ResolveLevel(level) ==
    IF level.kind = "name"
    THEN IF level.name \in DOMAIN LoguruLevels
         THEN [ok |-> TRUE, name |-> level.name, no |-> LoguruLevels[level.name]]
         ELSE [ok |-> FALSE, name |-> level.name, no |-> 0]
    ELSE IF level.no < 0
         THEN [ok |-> FALSE, name |-> "", no |-> level.no]
         ELSE [ok |-> TRUE, name |-> "Level " \o ToString(level.no), no |-> level.no]

(***************************************************************************)
(* The sinks of setup_logging.                                             *)
(***************************************************************************)
SinkNames == {"stderr", "stdout", "general", "error"}

DefaultSink == [sink |-> "stderr", level |-> "DEBUG", filter |-> FALSE]

Debug == TRUE

ConsoleSink ==
    [sink |-> "stdout", level |-> IF Debug THEN "DEBUG" ELSE "INFO", filter |-> TRUE]

GeneralSinkLevel == "INFO"

\* The error file registered at the general file's level.
ErrorSinkLevelInfo == "INFO"

ErrorSinkLevel == "ERROR"

GeneralSink == [sink |-> "general", level |-> GeneralSinkLevel, filter |-> TRUE]

ErrorSink == [sink |-> "error", level |-> ErrorSinkLevel, filter |-> TRUE]

Line(lv, c, task, msg, h) ==
    [level |-> lv.name, no |-> lv.no,
     traceid |-> IF h.filter THEN Some(RenderTraceId(c, task)) ELSE None,
     message |-> msg, task |-> task]

\* One logger call: every registered sink whose minimum level admits the
\* record runs its filter, renders the line and enqueues it.
RECURSIVE Emit(_, _, _, _, _, _)
Emit(o, hs, lv, c, task, msg) ==
    IF hs = <<>> THEN o
    ELSE LET h == Head(hs)
             o1 == IF lv.no >= LoguruLevels[h.level]
                   THEN [o EXCEPT ![h.sink] = Append(@, Line(lv, c, task, msg, h))]
                   ELSE o
         IN Emit(o1, Tail(hs), lv, c, task, msg)

\* logger.log(level, msg) / logger.info(msg) in `task`: the sinks afterwards.
LoggerLog(o, hs, level, c, task, msg) ==
    LET lv == ResolveLevel(level)
    IN IF lv.ok THEN Emit(o, hs, lv, c, task, msg) ELSE o

LoggerInfo(o, hs, c, task, msg) == LoggerLog(o, hs, ByName("INFO"), c, task, msg)

(***************************************************************************)
(* The standard logging facility: the logger tree and callHandlers.        *)
(***************************************************************************)
RedirectedLoggers ==
    <<"uvicorn", "uvicorn.error", "uvicorn.access", "uvicorn.asgi",
      "fastapi", "fastapi.error">>

Range(s) == {s[i] : i \in DOMAIN s}

Loggers == Range(RedirectedLoggers)
             \cup {"root", "uvicorn.error.sub", "fastapi.sub", "asyncio"}

Parent ==
    [l \in Loggers |->
        CASE l \in {"uvicorn", "fastapi", "asyncio", "root"} -> "root"
          [] l \in {"uvicorn.error", "uvicorn.access", "uvicorn.asgi"} -> "uvicorn"
          [] l \in {"fastapi.error", "fastapi.sub"} -> "fastapi"
          [] l = "uvicorn.error.sub" -> "uvicorn.error"]

\* Logger.callHandlers: the handlers a record logged on `l` is handed to.
RECURSIVE CallHandlers(_, _, _)
CallHandlers(hs, prop, l) ==
    hs[l] \o (IF l = "root" \/ ~prop[l] THEN <<>>
              ELSE CallHandlers(hs, prop, Parent[l]))

(***************************************************************************)
(* InterceptHandler.emit.                                                  *)
(***************************************************************************)
StdRecords ==
    {[levelname |-> "DEBUG", levelno |-> 10],
     [levelname |-> "INFO", levelno |-> 20],
     [levelname |-> "WARNING", levelno |-> 30],
     [levelname |-> "ERROR", levelno |-> 40],
     [levelname |-> "TRACE", levelno |-> 5],
     [levelname |-> "Level 15", levelno |-> 15],
     [levelname |-> "NOTICE", levelno |-> 25]}

\* emit with the except branch keeping the unknown name.
EmitLevelKeepName(record) == ByName(record.levelname)

\* try: level = logger.level(record.levelname).name
\* except ValueError: level = record.levelno
EmitLevel(record) ==
    IF LevelLookupFails(record.levelname)
    THEN ByNo(record.levelno)
    ELSE ByName(record.levelname)

\* emit raises exactly when the logger.log call it ends with raises.
EmitRaises(record) == ~ResolveLevel(EmitLevel(record)).ok

InterceptEmit(o, hs, record, c, task, msg) ==
    LoggerLog(o, hs, EmitLevel(record), c, task, msg)

\* Logger.isEnabledFor: above manager.disable (0) and at or above the
\* effective level, which every logger here inherits from the root.
IsEnabledFor(rootLv, record) == record.levelno > 0 /\ record.levelno >= rootLv

RECURSIVE HandleChain(_, _, _, _, _, _, _)
HandleChain(o, hs, chain, record, c, task, msg) ==
    IF chain = <<>> THEN o
    ELSE HandleChain(
             IF Head(chain) = "intercept"
             THEN InterceptEmit(o, hs, record, c, task, msg)
             ELSE o,
             hs, Tail(chain), record, c, task, msg)

\* A standard-logging call on logger l: the loguru sinks afterwards.
StdLogOut(o, hs, sh, sp, rootLv, l, record, c, task, msg) ==
    IF IsEnabledFor(rootLv, record)
    THEN HandleChain(o, hs, CallHandlers(sh, sp, l), record, c, task, msg)
    ELSE o

StdLogNote(sh, sp, rootLv, l, record) ==
    LET chain == IF IsEnabledFor(rootLv, record)
                 THEN CallHandlers(sh, sp, l) ELSE <<>>
    IN [logger |-> l, record |-> record, chain |-> chain,
        raised |-> \E i \in DOMAIN chain :
                       chain[i] = "intercept" /\ EmitRaises(record)]

NoStd ==
    [logger |-> "", record |-> [levelname |-> "", levelno |-> 0],
     chain |-> <<>>, raised |-> FALSE]

(***************************************************************************)
(* uvicorn.Config(..., log_config=...): its configure_logging.             *)
(***************************************************************************)
\* uvicorn.Config without log_config=None: uvicorn's LOGGING_CONFIG applies.
LogConfigDefault == "default"

\* log_config=None
LogConfig == "None"

UvicornConfigureHandlers(sh, logConfig) ==
    IF logConfig = "None" THEN sh
    ELSE [sh EXCEPT !["uvicorn"] = <<"stream">>,
                    !["uvicorn.error"] = <<>>,
                    !["uvicorn.access"] = <<"stream">>]

(***************************************************************************)
(* Initial state: the process before run_app runs.                         *)
(***************************************************************************)
IdleRequest ==
    [pc |-> "idle", header |-> None, path |-> "", request_id |-> None,
     status |-> 0, body |-> ""]

Init ==
    /\ mainpc = "remove"
    /\ handlers = <<DefaultSink>>
    /\ out = [s \in SinkNames |-> <<>>]
    /\ written = [s \in SinkNames |-> 0]
    /\ logDirExists \in BOOLEAN
    /\ stdHandlers = [l \in Loggers |-> <<>>]
    /\ stdPropagate = [l \in Loggers |-> TRUE]
    /\ rootLevel = 30
    /\ lastStd = NoStd
    /\ stdCount = 0
    /\ ctx = [t \in Tasks |-> None]
    /\ req = [r \in Requests |-> IdleRequest]

(***************************************************************************)
(* setup_logging, one action per statement.                                *)
(***************************************************************************)
\* logger.remove()
Remove ==
    /\ mainpc = "remove"
    /\ handlers' = <<>>
    /\ mainpc' = "add_console"
    /\ UNCHANGED <<out, written, logDirExists, stdHandlers, stdPropagate, rootLevel,
                   lastStd, stdCount, ctx, req>>

AddSink(at, sink, next) ==
    /\ mainpc = at
    /\ handlers' = Append(handlers, sink)
    /\ mainpc' = next
    /\ UNCHANGED <<out, written, logDirExists, stdHandlers, stdPropagate, rootLevel,
                   lastStd, stdCount, ctx, req>>

\* logger.add(sys.stdout, ...)
AddConsole == AddSink("add_console", ConsoleSink, "makedirs")

\* await async_makedirs(str(log_dir)): the directory is created off the
\* event loop; setup_logging is suspended until it returns or raises.
MakedirsDone ==
    /\ mainpc = "makedirs"
    /\ mainpc' = "add_general"
    /\ logDirExists' = TRUE
    /\ UNCHANGED <<handlers, out, written, stdHandlers, stdPropagate,
                   rootLevel, lastStd, stdCount, ctx, req>>

MakedirsFails ==
    /\ mainpc = "makedirs"
    /\ ~logDirExists
    /\ mainpc' = "aborted"
    /\ UNCHANGED <<handlers, out, written, logDirExists, stdHandlers, stdPropagate,
                   rootLevel, lastStd, stdCount, ctx, req>>

\* logger.add(str(log_dir / "{time:YYYY-MM-DD}.log"), ...)
AddGeneral == AddSink("add_general", GeneralSink, "add_error")

\* logger.add(str(log_dir / "error_{time:YYYY-MM-DD}.log"), ...)
AddError == AddSink("add_error", ErrorSink, "basic_config")

\* logging.basicConfig(handlers=[InterceptHandler()], level=0, force=True)
BasicConfig ==
    /\ mainpc = "basic_config"
    /\ stdHandlers' = [stdHandlers EXCEPT !["root"] = <<"intercept">>]
    /\ rootLevel' = 0
    /\ mainpc' = "redirect"
    /\ UNCHANGED <<handlers, out, written, logDirExists, stdPropagate, lastStd, stdCount,
                   ctx, req>>

\* The loop leaving propagate at its default.
RedirectPropagateKept(l) == TRUE

\* _logger.propagate = False
RedirectPropagate(l) == FALSE

\* for logger_name in [...]: handlers = [InterceptHandler()]; propagate = False
Redirect ==
    /\ mainpc = "redirect"
    /\ stdHandlers' = [l \in Loggers |->
                          IF l \in Range(RedirectedLoggers)
                          THEN <<"intercept">> ELSE stdHandlers[l]]
    /\ stdPropagate' = [l \in Loggers |->
                           IF l \in Range(RedirectedLoggers)
                           THEN RedirectPropagate(l) ELSE stdPropagate[l]]
    /\ mainpc' = "init_log"
    /\ UNCHANGED <<handlers, out, written, logDirExists, rootLevel, lastStd, stdCount,
                   ctx, req>>

\* logger.info("init logger success")
InitLog ==
    /\ mainpc = "init_log"
    /\ out' = LoggerInfo(out, handlers, ctx, MainTask, <<"init logger success">>)
    /\ mainpc' = "uvicorn_config"
    /\ UNCHANGED <<handlers, written, logDirExists, stdHandlers, stdPropagate, rootLevel,
                   lastStd, stdCount, ctx, req>>

(***************************************************************************)
(* run_app after setup_logging, and the lifespan hook.                     *)
(***************************************************************************)
\* config = uvicorn.Config("api:app", ..., log_config=None)
UvicornConfig ==
    /\ mainpc = "uvicorn_config"
    /\ stdHandlers' = UvicornConfigureHandlers(stdHandlers, LogConfig)
    /\ mainpc' = "serve"
    /\ UNCHANGED <<handlers, out, written, logDirExists, stdPropagate, rootLevel, lastStd,
                   stdCount, ctx, req>>

\* await server.serve(): the lifespan task starts with a copy of the
\* caller's context; logger.info("Starting up..."); await asyncio.sleep(1)
LifespanStartup ==
    /\ mainpc = "serve"
    /\ LET c == ContextCopy(ctx, MainTask, LifespanTask)
       IN /\ ctx' = c
          /\ out' = LoggerInfo(out, handlers, c, LifespanTask, <<"Starting up...">>)
    /\ mainpc' = "startup_sleep"
    /\ UNCHANGED <<handlers, written, logDirExists, stdHandlers, stdPropagate, rootLevel,
                   lastStd, stdCount, req>>

\* yield: startup is complete and the server accepts connections.
StartupComplete ==
    /\ mainpc = "startup_sleep"
    /\ mainpc' = "accepting"
    /\ UNCHANGED <<handlers, out, written, logDirExists, stdHandlers, stdPropagate,
                   rootLevel, lastStd, stdCount, ctx, req>>

\* run_app starting the server without awaiting setup_logging.
AcceptingDuringSetup == mainpc \in {"makedirs", "accepting"}

\* await setup_logging() precedes await server.serve(): connections are
\* accepted only once the lifespan startup, hence setup_logging, is over.
Accepting == mainpc = "accepting"

InFlight(r) == req[r].pc \notin {"idle", "done", "failed"}

\* Shutdown once no request is in flight: logger.info("Shutting down...")
Shutdown ==
    /\ mainpc = "accepting"
    /\ \A r \in Requests : ~InFlight(r)
    /\ out' = LoggerInfo(out, handlers, ctx, LifespanTask, <<"Shutting down...">>)
    /\ mainpc' = "stopped"
    /\ UNCHANGED <<handlers, written, logDirExists, stdHandlers, stdPropagate, rootLevel,
                   lastStd, stdCount, ctx, req>>

Setup ==
    \/ Remove
    \/ AddConsole
    \/ MakedirsDone
    \/ MakedirsFails
    \/ AddGeneral
    \/ AddError
    \/ BasicConfig
    \/ Redirect
    \/ InitLog
    \/ UvicornConfig
    \/ LifespanStartup
    \/ StartupComplete

(***************************************************************************)
(* The server's own standard-logging calls, and the sinks' writer threads. *)
(***************************************************************************)
StdLog(l, record) ==
    /\ mainpc = "accepting"
    /\ stdCount < MaxStdLog
    /\ stdCount' = stdCount + 1
    /\ out' = StdLogOut(out, handlers, stdHandlers, stdPropagate, rootLevel,
                        l, record, ctx, MainTask, <<"std">>)
    /\ lastStd' = StdLogNote(stdHandlers, stdPropagate, rootLevel, l, record)
    /\ UNCHANGED <<mainpc, handlers, written, logDirExists, stdHandlers, stdPropagate,
                   rootLevel, ctx, req>>

\* enqueue=True: a sink's writer thread takes the next line off the queue.
Writer(s) ==
    /\ written[s] < Len(out[s])
    /\ written' = [written EXCEPT ![s] = @ + 1]
    /\ UNCHANGED <<mainpc, handlers, out, logDirExists, stdHandlers, stdPropagate,
                   rootLevel, lastStd, stdCount, ctx, req>>

\* The life of the service with the server's own standard-logging calls
\* and the writer threads, and without requests.
NextBridge ==
    \/ Setup
    \/ \E l \in Loggers, record \in StdRecords : StdLog(l, record)
    \/ \E s \in SinkNames : Writer(s)

SpecBridge == Init /\ [][NextBridge]_vars

(***************************************************************************)
(* Correlation ids: the x-request-id header, or uuid.uuid4().hex.          *)
(***************************************************************************)
HexDigits ==
    <<"0", "1", "2", "3", "4", "5", "6", "7",
      "8", "9", "a", "b", "c", "d", "e", "f">>

\* The 32 nibbles of 16 random bytes; the seed stands for the random draw.
RandomNibbles(seed) == [i \in 1..32 |-> (seed * 7 + i * (seed + 1)) % 16]

\* uuid4(): the version nibble is 4 and the variant bits are 10;
\* .hex: the 128-bit value as 32 lowercase hexadecimal digits.
Uuid4Hex(seed) ==
    LET n == RandomNibbles(seed)
        v == [n EXCEPT ![13] = 4, ![17] = 8 + (n[17] % 4)]
    IN [i \in 1..32 |-> HexDigits[v[i] + 1]]

Seeds == 0..(NumSeeds - 1)

\* What a client may send as x-request-id: a short token, a value longer
\* than the field, or an id it has been given (one of those in use).
HeaderValues(known) ==
    {<<"a", "b", "c">>, [i \in 1..(TraceIdWidth + 1) |-> "x"]} \cup known

HeaderChoices(known) == {None} \cup {Some(h) : h \in HeaderValues(known)}

\* The one route of the application.
Paths == {"/"}

\* The ids of the requests received so far.
IdsInUse == {req[b].request_id[1] : b \in {x \in Requests : req[x].pc # "idle"}}

\* extra_process generating an id even when the header is present.
RequestIdIgnoresHeader(header, fresh) == fresh

\* extra_process adopting the sentinel instead of generating an id.
RequestIdNotGenerated(header, fresh) ==
    IF header = None THEN MissTraceId ELSE header[1]

\* request_id = request.headers.get("x-request-id")
\* if request_id is None: request_id = uuid.uuid4().hex
RequestId(header, fresh) == IF header = None THEN fresh ELSE header[1]

(***************************************************************************)
(* extra_process and root, one action per stretch between two awaits.      *)
(***************************************************************************)
\* A request arrives in a task of its own (a copy of the server's context);
\* extra_process runs up to `await call_next(request)`, which starts the
\* downstream handling in a child task with a copy of the caller's context.
\* Two uuid4 draws, or a draw and an id already in use, coincide only with
\* negligible probability: a draw is taken to differ from the ids in use.
Receive(r, header, path, seed) ==
    /\ Accepting
    /\ req[r].pc = "idle"
    /\ r > 1 => req[r - 1].pc # "idle"
    /\ header = None => Uuid4Hex(seed) \notin IdsInUse
    /\ LET id == RequestId(header, Uuid4Hex(seed))
           c1 == ContextCopy(ctx, MainTask, ReqTask(r))
           c2 == ContextSet(c1, ReqTask(r), id)
       IN /\ ctx' = ContextCopy(c2, ReqTask(r), HandlerTask(r))
          /\ req' = [req EXCEPT ![r] =
                        [@ EXCEPT !.pc = "call_next", !.header = header,
                                  !.path = path, !.request_id = Some(id)]]
    /\ UNCHANGED <<mainpc, handlers, out, written, logDirExists, stdHandlers, stdPropagate,
                   rootLevel, lastStd, stdCount>>

\* The downstream task runs: GET / enters root, which suspends on
\* asyncio.sleep(1).
Dispatch(r) ==
    /\ req[r].pc = "call_next"
    /\ req[r].path = "/"
    /\ req' = [req EXCEPT ![r] = [@ EXCEPT !.pc = "sleep"]]
    /\ UNCHANGED <<mainpc, handlers, out, written, logDirExists, stdHandlers, stdPropagate,
                   rootLevel, lastStd, stdCount, ctx>>

\* root returning without its log statement.
HandlerWakeSilent(r) ==
    /\ req[r].pc = "sleep"
    /\ req' = [req EXCEPT ![r] =
                  [@ EXCEPT !.pc = "returning", !.status = 200,
                            !.body = "Hello World"]]
    /\ UNCHANGED <<mainpc, handlers, out, written, logDirExists, stdHandlers,
                   stdPropagate, rootLevel, lastStd, stdCount, ctx>>

\* root after the sleep: logger.info("hello world"); return {"message": ...}
HandlerWake(r) ==
    /\ req[r].pc = "sleep"
    /\ out' = LoggerInfo(out, handlers, ctx, HandlerTask(r), <<"hello world">>)
    /\ req' = [req EXCEPT ![r] =
                  [@ EXCEPT !.pc = "returning", !.status = 200,
                            !.body = "Hello World"]]
    /\ UNCHANGED <<mainpc, handlers, written, logDirExists, stdHandlers, stdPropagate,
                   rootLevel, lastStd, stdCount, ctx>>

\* The downstream handling raises instead of returning a response.
HandlerRaise(r) ==
    /\ req[r].pc = "sleep"
    /\ req' = [req EXCEPT ![r] = [@ EXCEPT !.pc = "raising"]]
    /\ UNCHANGED <<mainpc, handlers, out, written, logDirExists, stdHandlers, stdPropagate,
                   rootLevel, lastStd, stdCount, ctx>>

AccessRecord == [levelname |-> "INFO", levelno |-> 20]

ErrorRecord == [levelname |-> "ERROR", levelno |-> 40]

\* call_next returned: extra_process logs the completion line and returns
\* the response; the server sends it and logs the access line.
MiddlewareResume(r) ==
    /\ req[r].pc = "returning"
    /\ LET o1 == LoggerInfo(out, handlers, ctx, ReqTask(r),
                            <<"process finished", ToString(req[r].status),
                              req[r].path>>)
       IN out' = StdLogOut(o1, handlers, stdHandlers, stdPropagate, rootLevel,
                           "uvicorn.access", AccessRecord, ctx, ReqTask(r),
                           <<"access", ToString(req[r].status), req[r].path>>)
    /\ lastStd' = StdLogNote(stdHandlers, stdPropagate, rootLevel,
                             "uvicorn.access", AccessRecord)
    /\ req' = [req EXCEPT ![r] = [@ EXCEPT !.pc = "done"]]
    /\ UNCHANGED <<mainpc, handlers, written, logDirExists, stdHandlers, stdPropagate,
                   rootLevel, stdCount, ctx>>

\* call_next raised: the exception leaves extra_process at line 32, the
\* rest of it is skipped; the server answers 500, logs the access line and
\* logs the exception on uvicorn.error.
MiddlewarePropagate(r) ==
    /\ req[r].pc = "raising"
    /\ LET o1 == StdLogOut(out, handlers, stdHandlers, stdPropagate, rootLevel,
                           "uvicorn.access", AccessRecord, ctx, ReqTask(r),
                           <<"access", "500", req[r].path>>)
       IN out' = StdLogOut(o1, handlers, stdHandlers, stdPropagate, rootLevel,
                           "uvicorn.error", ErrorRecord, ctx, ReqTask(r),
                           <<"Exception in ASGI application">>)
    /\ lastStd' = StdLogNote(stdHandlers, stdPropagate, rootLevel,
                             "uvicorn.error", ErrorRecord)
    /\ req' = [req EXCEPT ![r] =
                  [@ EXCEPT !.pc = "failed", !.status = 500,
                            !.body = "Internal Server Error"]]
    /\ UNCHANGED <<mainpc, handlers, written, logDirExists, stdHandlers, stdPropagate,
                   rootLevel, stdCount, ctx>>

Next ==
    \/ Setup
    \/ Shutdown
    \/ \E r \in Requests, header \in HeaderChoices(IdsInUse), path \in Paths :
          \E seed \in (IF header = None THEN Seeds ELSE {0}) :
             Receive(r, header, path, seed)
    \/ \E r \in Requests : Dispatch(r)
    \/ \E r \in Requests : HandlerWake(r)
    \/ \E r \in Requests : HandlerRaise(r)
    \/ \E r \in Requests : MiddlewareResume(r)
    \/ \E r \in Requests : MiddlewarePropagate(r)

\* The life of the service with its requests.  What a line shows is fixed
\* when the logger call enqueues it, so the writer threads are left to
\* SpecBridge, which follows the lines into the files.
Spec == Init /\ [][Next]_vars

(***************************************************************************)
(* Vocabulary of the properties.                                           *)
(***************************************************************************)
Console == out["stdout"]
General == out["general"]
ErrorFile == out["error"]

FilteredSinks == {"stdout", "general", "error"}

\* The lines a sink's writer thread has taken off its queue and written.
File(s) == SubSeq(out[s], 1, written[s])

Drained(s) == written[s] = Len(out[s])

BelongsTo(line, r) == line.task[2] = r /\ line.task[1] \in {"req", "handler"}

OutsideRequests(line) == line.task[1] \in {"main", "lifespan"}

Spaces(n) == [i \in 1..n |-> " "]

\* The correlation-id field of the line is id, left-justified and filled
\* up with spaces to the format's width when it is shorter.
Field(id) ==
    <<id \o Spaces(IF Len(id) < TraceIdWidth THEN TraceIdWidth - Len(id) ELSE 0)>>

ShowsId(line, id) == line.traceid = Field(id)

Received(r) == req[r].pc # "idle"

Finished(r) == req[r].pc \in {"done", "failed"}

IdOf(r) == req[r].request_id[1]

CountWhere(seq, P(_)) == Cardinality({i \in DOMAIN seq : P(seq[i])})

IsHello(line) == line.message = <<"hello world">>

IsCompletion(line) == line.message[1] = "process finished"

IsBridged(line) == line.message[1] \in {"std", "access", "Exception in ASGI application"}

\* The lines of the three sinks of setup_logging.
Lines == UNION {Range(out[s]) : s \in FilteredSinks}

AllLinesShow(r, id) ==
    LET f == Field(id)
    IN \A l \in Lines : BelongsTo(l, r) => l.traceid = f

\* Per request, the field its lines are to show (nothing before it is received).
Fields == [r \in Requests |-> IF Received(r) THEN Field(IdOf(r)) ELSE <<>>]

(***************************************************************************)
(* C1: requests whose handling overlaps never see each other's id: every   *)
(* line emitted during a request's handling is rendered with that          *)
(* request's id and with no other request's differing id, in every         *)
(* interleaving.                                                           *)
(***************************************************************************)
C1_Isolation ==
    LET f == Fields
    IN \A l \in Lines : \A a \in Requests :
           BelongsTo(l, a) =>
               /\ l.traceid = f[a]
               /\ \A b \in Requests \ {a} :
                     (Received(b) /\ IdOf(b) # IdOf(a)) => l.traceid # f[b]

\* Request 2 logs between two lines of request 1, and their ids differ.
C1_Witness ==
    /\ MaxReq >= 2
    /\ Received(1) /\ Received(2) /\ IdOf(1) # IdOf(2)
    /\ \E i, j, k \in DOMAIN Console :
          /\ i < j /\ j < k
          /\ BelongsTo(Console[i], 1)
          /\ BelongsTo(Console[j], 2)
          /\ BelongsTo(Console[k], 1)

(***************************************************************************)
(* C2: a request carrying x-request-id: X uses X verbatim as its id, and   *)
(* every line emitted during its handling (handler line, bridged lines,    *)
(* completion line) shows X in the correlation-id field.                   *)
(***************************************************************************)
C2_HeaderAdopted ==
    \A r \in Requests :
        (Received(r) /\ req[r].header # None) =>
            /\ req[r].request_id = req[r].header
            /\ ctx[ReqTask(r)] = req[r].header
            /\ AllLinesShow(r, req[r].header[1])

\* A finished request with a header whose handler line, completion line
\* and bridged access line are all on the console.
C2_Witness ==
    \E r \in Requests :
        /\ req[r].pc = "done" /\ req[r].header # None
        /\ \E i, j, k \in DOMAIN Console :
              /\ BelongsTo(Console[i], r) /\ IsHello(Console[i])
              /\ BelongsTo(Console[j], r) /\ IsCompletion(Console[j])
              /\ BelongsTo(Console[k], r) /\ IsBridged(Console[k])

(***************************************************************************)
(* C3: a request without the header uses a generated id of 32 hexadecimal  *)
(* characters, the same on every line of the request.  As claimed, the id  *)
(* is also distinct from the id of every other request; as amended, no     *)
(* distinctness is promised.                                               *)
(***************************************************************************)
HexSet == Range(HexDigits)

Is32Hex(id) == Len(id) = 32 /\ Range(id) \subseteq HexSet

C3_GeneratedIdConsistent ==
    \A r \in Requests :
        (Received(r) /\ req[r].header = None) =>
            /\ Is32Hex(IdOf(r))
            /\ AllLinesShow(r, IdOf(r))

C3_GeneratedIdDistinct ==
    /\ C3_GeneratedIdConsistent
    /\ \A r \in Requests :
          (Received(r) /\ req[r].header = None) =>
              \A b \in Requests \ {r} : Received(b) => IdOf(b) # IdOf(r)

\* A finished header-less request with its three lines on the console.
C3_Witness ==
    \E r \in Requests :
        /\ req[r].pc = "done" /\ req[r].header = None /\ req[r].path = "/"
        /\ CountWhere(Console, LAMBDA l : BelongsTo(l, r)) = 3

(***************************************************************************)
(* C4: every request that entered the middleware and whose handling is     *)
(* over, by a response or by an exception, has its completion line.        *)
(***************************************************************************)
C4_CompletionLineAlways ==
    \A r \in Requests :
        Finished(r) =>
            \E i \in DOMAIN Console :
                Console[i].task = ReqTask(r) /\ IsCompletion(Console[i])

(***************************************************************************)
(* C5: no request is handled, and no request-handling line is emitted,     *)
(* before setup_logging is over: the log directory exists, the three       *)
(* sinks are registered, and so every request line is in the general file  *)
(* as well as on the console.                                              *)
(***************************************************************************)
SetupOver == mainpc \in {"uvicorn_config", "serve", "startup_sleep", "accepting", "stopped"}

C5_SetupBeforeRequests ==
    \A r \in Requests :
        Received(r) =>
            /\ SetupOver
            /\ logDirExists
            /\ {handlers[i].sink : i \in DOMAIN handlers} = FilteredSinks
            /\ CountWhere(General, LAMBDA l : BelongsTo(l, r))
                  = CountWhere(Console, LAMBDA l : BelongsTo(l, r))

C5_Witness ==
    \E r \in Requests : \E i \in DOMAIN General : BelongsTo(General[i], r)

(***************************************************************************)
(* C6: once the pipeline is initialized, the N error-level records written *)
(* are N entries of the general file and N of the error file, the          *)
(* info-level records are entries of the general file only.  The console   *)
(* admits every level from DEBUG up, so it counts the records written.     *)
(***************************************************************************)
AtLevel(seq, n) == CountWhere(seq, LAMBDA l : l.no = n)

C6_FileRouting ==
    /\ AtLevel(General, 40) = AtLevel(Console, 40)
    /\ AtLevel(ErrorFile, 40) = AtLevel(Console, 40)
    /\ AtLevel(General, 20) = AtLevel(Console, 20)
    /\ AtLevel(ErrorFile, 20) = 0
    /\ AtLevel(File("error"), 20) = 0
    /\ (Drained("general") /\ Drained("error")) =>
          /\ AtLevel(File("general"), 40) = AtLevel(Console, 40)
          /\ AtLevel(File("error"), 40) = AtLevel(Console, 40)
          /\ AtLevel(File("general"), 20) = AtLevel(Console, 20)

\* Two error-level records and the info-level records, all written out.
C6_Witness ==
    /\ Drained("general") /\ Drained("error")
    /\ AtLevel(File("error"), 40) = 2
    /\ AtLevel(File("general"), 20) >= 2

(***************************************************************************)
(* C7: a GET / without header that completes has exactly one hello world   *)
(* line and exactly one completion line, in this order, both with the      *)
(* generated id, and the response 200 {"message": "Hello World"}.          *)
(***************************************************************************)
HelloLines(s, r) ==
    {i \in DOMAIN out[s] : BelongsTo(out[s][i], r) /\ IsHello(out[s][i])}

CompletionLines(s, r) ==
    {i \in DOMAIN out[s] : BelongsTo(out[s][i], r) /\ IsCompletion(out[s][i])}

C7_EndToEnd ==
    \A r \in Requests :
        (req[r].pc = "done" /\ req[r].header = None /\ req[r].path = "/") =>
            /\ req[r].status = 200 /\ req[r].body = "Hello World"
            /\ Is32Hex(IdOf(r))
            /\ \A s \in {"stdout", "general"} :
                  LET H == HelloLines(s, r)
                      K == CompletionLines(s, r)
                  IN /\ Cardinality(H) = 1
                     /\ Cardinality(K) = 1
                     /\ \A i \in H : \A j \in K :
                           /\ i < j
                           /\ ShowsId(out[s][i], IdOf(r))
                           /\ ShowsId(out[s][j], IdOf(r))
                           /\ out[s][j].message = <<"process finished", "200", "/">>

C7_Witness ==
    \E r \in Requests :
        /\ req[r].pc = "done" /\ req[r].header = None /\ req[r].path = "/"
        /\ \E i \in DOMAIN Console : BelongsTo(Console[i], r) /\ IsCompletion(Console[i])

(***************************************************************************)
(* C8: a line emitted outside any request shows the sentinel miss_traceid  *)
(* and no request's id; reading the context yields a string in every task. *)
(***************************************************************************)
C8_SentinelOutsideRequests ==
    /\ \A t \in Tasks : Range(Filter(ctx, t)) \subseteq STRING
    /\ LET f == Fields
       IN \A l \in Lines :
              OutsideRequests(l) =>
                  /\ ShowsId(l, MissTraceId)
                  /\ \A r \in Requests : l.traceid # f[r]

\* The shutdown line, emitted after a request has set and used its id.
C8_Witness ==
    /\ \E i \in DOMAIN Console : Console[i].message = <<"Shutting down...">>
    /\ \E i \in DOMAIN Console : Console[i].message = <<"init logger success">>
    /\ \E r \in Requests : req[r].pc = "done"

(***************************************************************************)
(* C9: the bridging handler never raises on a record, whatever its level   *)
(* name, and the record comes out at the pipeline's level of that name,    *)
(* or at its numeric level when the pipeline has no level of that name.    *)
(***************************************************************************)
Last(seq) == seq[Len(seq)]

EquivalentNo(record) ==
    CASE record.levelname = "TRACE" -> 5
      [] record.levelname = "DEBUG" -> 10
      [] record.levelname = "INFO" -> 20
      [] record.levelname = "SUCCESS" -> 25
      [] record.levelname = "WARNING" -> 30
      [] record.levelname = "ERROR" -> 40
      [] record.levelname = "CRITICAL" -> 50
      [] OTHER -> record.levelno

ArrivedLast(s, record) ==
    /\ out[s] # <<>>
    /\ Last(out[s]).no = EquivalentNo(record)
    /\ Last(out[s]).message = <<"std">>

C9_BridgeLevels ==
    (stdCount > 0) =>
        /\ ~lastStd.raised
        /\ lastStd.chain # <<>>
        /\ EquivalentNo(lastStd.record) >= 10 => ArrivedLast("stdout", lastStd.record)
        /\ EquivalentNo(lastStd.record) >= 20 => ArrivedLast("general", lastStd.record)
        /\ EquivalentNo(lastStd.record) >= 40 => ArrivedLast("error", lastStd.record)

\* A record whose level name the pipeline does not know has come through.
C9_Witness ==
    /\ stdCount > 0
    /\ lastStd.record.levelname = "NOTICE"
    /\ ArrivedLast("general", lastStd.record)

(***************************************************************************)
(* C10: after setup_logging each redirected logger has the bridging        *)
(* handler as its only handler and does not propagate, so a record logged  *)
(* on it or on a descendant reaches the pipeline exactly once.             *)
(***************************************************************************)
RedirectedOrBelow == Range(RedirectedLoggers) \cup {"uvicorn.error.sub", "fastapi.sub"}

C10_DeliveredOnce ==
    SetupOver =>
        /\ \A l \in Range(RedirectedLoggers) :
              stdHandlers[l] = <<"intercept">> /\ ~stdPropagate[l]
        /\ \A l \in RedirectedOrBelow :
              CallHandlers(stdHandlers, stdPropagate, l) = <<"intercept">>
        /\ (stdCount > 0 /\ lastStd.logger \in RedirectedOrBelow) =>
              lastStd.chain = <<"intercept">>
        /\ CountWhere(Console, LAMBDA l : l.message = <<"std">>) <= stdCount

\* A record logged on a descendant of a redirected logger has come through.
C10_Witness ==
    /\ stdCount = 1
    /\ lastStd.logger = "uvicorn.error.sub"
    /\ lastStd.record.levelname = "WARNING"
    /\ ArrivedLast("stdout", lastStd.record)

====
